---- MODULE Spec2Model ----
(***************************************************************************)
(* Model of tracker.py: the FitnessTracker store (profile, derived         *)
(* metrics, food and exercise logs, macro goals), its JSON snapshot, and   *)
(* the menu loop of main() that drives it.                                 *)
(*                                                                         *)
(* Numbers.  Heights, weights, ages, calories and grams are integers.      *)
(* Energy figures derived from the profile are kept exactly, in units of   *)
(* 1/40000 kcal (Unit): the BMR coefficients have three decimals and every *)
(* activity factor is a multiple of 1/40.  Macro goals are in percent.     *)
(* float() also accepts "nan": NaN is a value of its own, every comparison *)
(* with it is false and every sum, difference and product with it is NaN.  *)
(* The model feeds NaN in as a height only; calories and grams are finite. *)
(*                                                                         *)
(* Strings.  Dates are ISO strings, modelled as sequences of digits and    *)
(* compared as Python compares strings (lexicographically).                *)
(***************************************************************************)
EXTENDS Integers, Sequences, FiniteSets, TLC

VARIABLES pc, tracker, file, today, choice, out

vars == <<pc, tracker, file, today, choice, out>>

\* ------------------------------------------------------------------ bounds
MaxLogs == 3
MaxDay == 8

\* the day the clock shows when the program starts
FirstDay == 7

\* ------------------------------------------------------------- basic values
None == [py |-> "None"]

NoDate == <<>>

\* one kcal, in the model's energy unit of 1/40000 kcal
Unit == 40 * 1000

\* ---------------------------------------------------------------- helpers
RECURSIVE SumSeq(_)
SumSeq(s) == IF s = <<>> THEN 0 ELSE Head(s) + SumSeq(Tail(s))

\* the values a generator expression draws from a list of entries
calories_of(logs) == [i \in 1..Len(logs) |-> logs[i].calories]

burned_of(logs) == [i \in 1..Len(logs) |-> logs[i].calories_burned]

grams_of(logs, macro) == [i \in 1..Len(logs) |-> logs[i].nutrition[macro]]

Abs(x) == IF x < 0 THEN -x ELSE x

\* float('nan'), and Python's float arithmetic and comparisons in its presence
NaN == 0 - 2147483647

IsNaN(x) == x = NaN

Add(x, y) == IF IsNaN(x) \/ IsNaN(y) THEN NaN ELSE x + y

Sub(x, y) == IF IsNaN(x) \/ IsNaN(y) THEN NaN ELSE x - y

Mul(x, y) == IF IsNaN(x) \/ IsNaN(y) THEN NaN ELSE x * y

Less(x, y) == ~IsNaN(x) /\ ~IsNaN(y) /\ x < y

LessEq(x, y) == ~IsNaN(x) /\ ~IsNaN(y) /\ x <= y

Greater(x, y) == Less(y, x)

\* str.lower() on the strings the model feeds in
lower(s) ==
    CASE s = "Male" -> "male"
      [] s = "MALE" -> "male"
      [] s = "Female" -> "female"
      [] s = "Very_Active" -> "very_active"
      [] s = "Moderate" -> "moderate"
      [] OTHER -> s

\* datetime.date.isoformat(), reduced to a fixed-width two-digit day number
isoformat(d) == <<d \div 10, d % 10>>

\* Python's str < str: lexicographic, a proper prefix is smaller
RECURSIVE StrLess(_, _)
StrLess(a, b) ==
    IF b = <<>> THEN FALSE
    ELSE IF a = <<>> THEN TRUE
    ELSE IF Head(a) # Head(b) THEN Head(a) < Head(b)
    ELSE StrLess(Tail(a), Tail(b))

StrGE(a, b) == ~StrLess(a, b)

\* ------------------------------------------------------------ FitnessTracker
\* the ValueError __init__ raises, or "none"
init_error(height, weight, goal_weight, age, gender, activity_level) ==
    IF \/ LessEq(height, 0) \/ LessEq(weight, 0) \/ LessEq(goal_weight, 0)
       \/ Less(age, 18) \/ Greater(age, 100)
    THEN "Invalid values"
    ELSE IF lower(gender) \notin {"male", "female"}
    THEN "Gender must be"
    ELSE IF lower(activity_level) \notin
            {"sedentary", "light", "moderate", "active", "very_active"}
    THEN "Invalid activity level"
    ELSE "none"

calculate_bmr(self) ==
    IF self.gender = "male"
    THEN Mul(40, Sub(Add(Add(88362, Mul(13397, self.weight)), Mul(4799, self.height)),
                     Mul(5677, self.age)))
    ELSE Mul(40, Sub(Add(Add(447593, Mul(9247, self.weight)), Mul(3098, self.height)),
                     Mul(4330, self.age)))

\* the factors 1.2, 1.375, 1.55, 1.725, 1.9 as fortieths
factors ==
    [sedentary |-> 48, light |-> 55, moderate |-> 62, active |-> 69, very_active |-> 76]

calculate_tdee(self) ==
    IF IsNaN(self.bmr) THEN NaN ELSE (self.bmr \div 40) * factors[self.activity_level]

\* mutant: the boundary goal_weight = weight falls into the cutting branch
calculate_daily_calories_le(self) ==
    LET weight_diff == Sub(self.goal_weight, self.weight)
    IN  IF LessEq(weight_diff, 0) THEN Sub(self.tdee, 500 * Unit)
        ELSE IF Greater(weight_diff, 0) THEN Add(self.tdee, 500 * Unit)
        ELSE self.tdee

calculate_daily_calories(self) ==
    LET weight_diff == Sub(self.goal_weight, self.weight)
    IN  IF Less(weight_diff, 0) THEN Sub(self.tdee, 500 * Unit)
        ELSE IF Greater(weight_diff, 0) THEN Add(self.tdee, 500 * Unit)
        ELSE self.tdee

\* self.bmi = weight / ((height / 100) ** 2), kept as an exact fraction
calculate_bmi(weight, height) ==
    [num |-> Mul(weight, 10000), den |-> Mul(height, height)]

\* bmi < 18.5, < 25, < 30, each false of a NaN
get_bmi_category(self) ==
    LET below(n, d) == Less(Mul(d, self.bmi.num), Mul(n, self.bmi.den))
    IN  IF below(37, 2) THEN "Underweight"
        ELSE IF below(25, 1) THEN "Normal"
        ELSE IF below(30, 1) THEN "Overweight"
        ELSE "Obese"

DefaultMacroGoals == [protein |-> 30, carbs |-> 50, fats |-> 20]

\* the object __init__ builds when it does not raise
FitnessTracker(height, weight, goal_weight, age, gender, activity_level) ==
    LET s0 == [height |-> height, weight |-> weight, goal_weight |-> goal_weight,
               age |-> age, gender |-> lower(gender),
               activity_level |-> lower(activity_level)]
        s1 == [f \in DOMAIN s0 \cup {"bmr"} |->
                  IF f = "bmr" THEN calculate_bmr(s0) ELSE s0[f]]
        s2 == [f \in DOMAIN s1 \cup {"tdee"} |->
                  IF f = "tdee" THEN calculate_tdee(s1) ELSE s1[f]]
    IN  [height |-> s0.height, weight |-> s0.weight, goal_weight |-> s0.goal_weight,
         age |-> s0.age, gender |-> s0.gender, activity_level |-> s0.activity_level,
         bmr |-> s2.bmr, tdee |-> s2.tdee,
         daily_calorie_goal |-> calculate_daily_calories(s2),
         bmi |-> calculate_bmi(weight, height),
         food_logs |-> <<>>, exercise_logs |-> <<>>,
         macro_goals |-> DefaultMacroGoals]

\* ------------------------------------------------------------------ logging
\* the entry log_food appends (lines 57-60)
food_entry(date, meal, calories, protein, carbs, fats) ==
    [date |-> date, meal |-> meal, calories |-> calories,
     nutrition |-> [protein |-> protein, carbs |-> carbs, fats |-> fats]]

\* mutant: the new entry is inserted at the front
log_food_front(self, clock, meal, calories, protein, carbs, fats) ==
    [self EXCEPT !.food_logs =
        <<food_entry(isoformat(clock), meal, calories, protein, carbs, fats)>> \o @]

log_food(self, clock, meal, calories, protein, carbs, fats) ==
    [self EXCEPT !.food_logs =
        Append(@, food_entry(isoformat(clock), meal, calories, protein, carbs, fats))]

exercise_entry(date, activity, calories_burned) ==
    [date |-> date, activity |-> activity, calories_burned |-> calories_burned]

log_exercise(self, clock, activity, calories_burned) ==
    [self EXCEPT !.exercise_logs =
        Append(@, exercise_entry(isoformat(clock), activity, calories_burned))]

\* ---------------------------------------------------------------- summaries
\* mutant: the filter of weekly_summary, every entry from the target date on
on_date_from(logs, date_str) == SelectSeq(logs, LAMBDA log : StrGE(log.date, date_str))

\* the generator filter of lines 73-74 and 82-84
on_date(logs, date_str) == SelectSeq(logs, LAMBDA log : log.date = date_str)

\* Python's true division: x / 0 raises ZeroDivisionError
divides(denominator) == denominator # 0

\* the branch of lines 86-95: percentages and warning, or "No macros logged yet."
macro_report(self, total_protein, total_carbs, total_fats) ==
    LET total_macros_cal == (total_protein * 4) + (total_carbs * 4) + (total_fats * 9)
    IN  IF total_macros_cal > 0
        THEN IF divides(total_macros_cal)
             THEN [path |-> "percentages",
                   \* abs(protein_pct - macro_goals['protein']) > 0.20
                   warning |-> Abs(400 * total_protein
                                    - self.macro_goals.protein * total_macros_cal)
                                > 20 * total_macros_cal]
             ELSE [path |-> "ZeroDivisionError", warning |-> FALSE]
        ELSE [path |-> "no macros", warning |-> FALSE]

daily_summary(self, clock, date_arg) ==
    LET date_str == IF date_arg = NoDate THEN isoformat(clock) ELSE date_arg
        food == on_date(self.food_logs, date_str)
        food_cal == SumSeq(calories_of(food))
        exercise_cal == SumSeq(burned_of(on_date(self.exercise_logs, date_str)))
        net_cal == Sub((food_cal - exercise_cal) * Unit, self.bmr)
        cal_diff == Sub(net_cal, Add(Sub(self.daily_calorie_goal, self.tdee), self.bmr))
        macros == macro_report(self,
                      SumSeq(grams_of(food, "protein")),
                      SumSeq(grams_of(food, "carbs")),
                      SumSeq(grams_of(food, "fats")))
    IN  [date_str |-> date_str, food_cal |-> food_cal, exercise_cal |-> exercise_cal,
         net_cal |-> net_cal, cal_diff |-> cal_diff,
         status |-> IF Less(cal_diff, 0) THEN "under"
                    ELSE IF Greater(cal_diff, 0) THEN "over" ELSE "on",
         macros |-> macros.path, warning |-> macros.warning]

\* the generator filter of lines 101-102
since(logs, week_start) == SelectSeq(logs, LAMBDA log : StrGE(log.date, week_start))

weekly_summary(self, clock) ==
    LET week_start == isoformat(clock - 6)
        food_cal == SumSeq(calories_of(since(self.food_logs, week_start)))
        exercise_cal == SumSeq(burned_of(since(self.exercise_logs, week_start)))
        \* avg_net and est_weight_change before their division by 7 and by 7700
        net7 == Sub((food_cal - exercise_cal) * Unit, Mul(self.bmr, 7))
        change7700 == Sub((food_cal - exercise_cal) * Unit, Mul(self.tdee, 7))
    IN  [clock |-> clock, food_cal |-> food_cal, exercise_cal |-> exercise_cal,
         net7 |-> net7, change7700 |-> change7700,
         direction |-> IF Less(change7700, 0) THEN "loss" ELSE "gain"]

view_logs(self, type, date_str) ==
    LET shown(logs) ==
            SelectSeq(logs, LAMBDA log : date_str = NoDate \/ log.date = date_str)
    IN  [food |-> IF type = "food" \/ type = "all"
                  THEN shown(self.food_logs) ELSE <<>>,
         exercise |-> IF type = "exercise" \/ type = "all"
                      THEN shown(self.exercise_logs) ELSE <<>>]

\* -------------------------------------------------------------- persistence
\* mutant: the food log is written under both log keys
save_to_file_copied(self) ==
    << <<"height", self.height>>, <<"weight", self.weight>>,
       <<"goal_weight", self.goal_weight>>, <<"age", self.age>>,
       <<"gender", self.gender>>, <<"activity_level", self.activity_level>>,
       <<"food_logs", self.food_logs>>, <<"exercise_logs", self.food_logs>>,
       <<"macro_goals", self.macro_goals>> >>

\* json.dump of the dict of lines 123-128: the document's members, in order
save_to_file(self) ==
    << <<"height", self.height>>, <<"weight", self.weight>>,
       <<"goal_weight", self.goal_weight>>, <<"age", self.age>>,
       <<"gender", self.gender>>, <<"activity_level", self.activity_level>>,
       <<"food_logs", self.food_logs>>, <<"exercise_logs", self.exercise_logs>>,
       <<"macro_goals", self.macro_goals>> >>

\* json.load: the dict of a document (a repeated member: the last one wins)
has_key(doc, key) == \E i \in 1..Len(doc) : doc[i][1] = key

get(doc, key) ==
    LET last == CHOOSE i \in 1..Len(doc) :
                    /\ doc[i][1] = key
                    /\ \A j \in (i + 1)..Len(doc) : doc[j][1] # key
    IN  doc[last][2]

ProfileKeys == <<"height", "weight", "goal_weight", "age", "gender", "activity_level">>

\* load_from_file on an existing file: the exception it raises, or "none"
load_error(data) ==
    IF \E i \in 1..Len(ProfileKeys) : ~has_key(data, ProfileKeys[i])
    THEN "KeyError"
    ELSE IF init_error(get(data, "height"), get(data, "weight"),
                       get(data, "goal_weight"), get(data, "age"),
                       get(data, "gender"), get(data, "activity_level")) # "none"
    THEN "ValueError"
    ELSE IF ~has_key(data, "food_logs") \/ ~has_key(data, "exercise_logs")
    THEN "KeyError"
    ELSE "none"

\* load_from_file on an existing file, when it does not raise (lines 138-147)
load_from_file(data) ==
    LET t == FitnessTracker(get(data, "height"), get(data, "weight"),
                            get(data, "goal_weight"), get(data, "age"),
                            get(data, "gender"), get(data, "activity_level"))
    IN  [t EXCEPT !.food_logs = get(data, "food_logs"),
                  !.exercise_logs = get(data, "exercise_logs"),
                  !.macro_goals = IF has_key(data, "macro_goals")
                                  THEN get(data, "macro_goals") ELSE @]

\* ------------------------------------------------------------------- inputs
Profile(h, w, g, a, gender, activity_level) ==
    [parses |-> TRUE, height |-> h, weight |-> w, goal_weight |-> g, age |-> a,
     gender |-> gender, activity_level |-> activity_level]

\* an answer float() or int() rejects (lines 159-162, 184-187, 195, 215-218)
Unparsable == [parses |-> FALSE]

\* what the user may type at onboarding
OnboardInputs ==
    { Profile(h, w, g, a, gender, act) :
        h \in {0, 180}, w \in {0, 80}, g \in {0, 80}, a \in {17, 18, 100, 101},
        gender \in {"Male", "other"}, act \in {"Very_Active", "lazy"} }
    \cup {Profile(NaN, 80, 80, 30, "male", "lazy"), Profile(NaN, 80, 90, 30, "male", "light")}
    \cup {Unparsable}

\* what the user may type at "update profile"
UpdateInputs ==
    { Profile(165, 60, 55, 25, "Female", "light"),
      Profile(180, 80, 90, 30, "MALE", "Moderate"),
      Profile(180, 80, 90, 10, "male", "moderate"),
      Profile(180, 80, 90, 30, "other", "moderate"),
      Profile(180, -80, 90, 30, "male", "lazy"),
      Unparsable }

Food(meal, calories, protein, carbs, fats) ==
    [parses |-> TRUE, meal |-> meal, calories |-> calories,
     protein |-> protein, carbs |-> carbs, fats |-> fats]

FoodInputs == {Food("oats", 500, 30, 50, 20), Food("fix", -100, 0, 0, 0), Unparsable}

Exercise(activity, calories_burned) ==
    [parses |-> TRUE, activity |-> activity, calories_burned |-> calories_burned]

ExerciseInputs == {Exercise("run", 300), Exercise("undo", -50), Unparsable}

\* the dates a user may ask a summary for: a week ago, today at start, the day after
DateInputs == {NoDate, isoformat(FirstDay - 7), isoformat(FirstDay), isoformat(FirstDay + 1)}

ViewInputs == {<<"all", NoDate>>, <<"food", NoDate>>, <<"exercise", isoformat(FirstDay)>>}

\* tracker_data.json as main() may find it
Absent == [exists |-> FALSE]

Document(doc) == [exists |-> TRUE, doc |-> doc]

StoredProfile(h, w, g, a, gender, activity_level) ==
    << <<"height", h>>, <<"weight", w>>, <<"goal_weight", g>>, <<"age", a>>,
       <<"gender", gender>>, <<"activity_level", activity_level>> >>

InitialFiles ==
    { Absent,
      \* a snapshot with an old entry, an entry dated after today, and its own goals
      Document(StoredProfile(170, 65, 60, 40, "female", "light") \o
          << <<"food_logs",
               << food_entry(isoformat(FirstDay - 7), "old", 400, 10, 10, 10),
                  food_entry(isoformat(FirstDay + 1), "ahead", 250, 0, 0, 0) >> >>,
             <<"exercise_logs", <<>> >>,
             <<"macro_goals", [protein |-> 40, carbs |-> 40, fats |-> 20]>> >>),
      \* a snapshot written before macro goals were saved
      Document(StoredProfile(180, 80, 70, 30, "male", "active") \o
          << <<"food_logs", <<>> >>,
             <<"exercise_logs",
               << exercise_entry(isoformat(FirstDay - 7), "swim", 200),
                  exercise_entry(isoformat(FirstDay - 6), "walk", 100) >> >> >>),
      \* snapshots that lack a key
      Document(StoredProfile(180, 80, 70, 30, "male", "active") \o
          << <<"exercise_logs", <<>> >> >>),
      Document(<< <<"height", 180>>, <<"weight", 80>> >>),
      \* a snapshot whose profile __init__ rejects
      Document(StoredProfile(180, 80, 70, 10, "male", "active") \o
          << <<"food_logs", <<>> >>, <<"exercise_logs", <<>> >> >>) }

\* ------------------------------------------------------------------- main()
\* what the last step called (op), was given (args), raised (err) and gave back (res)
Out(op, err, args, res) == [op |-> op, err |-> err, args |-> args, res |-> res]

\* the ValueError of the try block around the prompts and the constructor
construct_error(args) ==
    IF ~args.parses THEN "could not convert"
    ELSE init_error(args.height, args.weight, args.goal_weight, args.age,
                    args.gender, args.activity_level)

construct(args) ==
    FitnessTracker(args.height, args.weight, args.goal_weight, args.age,
                   args.gender, args.activity_level)

Init ==
    /\ pc = "start"
    /\ tracker = None
    /\ file \in InitialFiles
    /\ today = FirstDay
    /\ choice = "none"
    /\ out = Out("none", "none", None, None)

\* line 154: tracker = FitnessTracker.load_from_file(filename), outside any try
Load ==
    /\ pc = "start"
    /\ IF ~file.exists
       THEN /\ tracker' = None
            /\ pc' = "onboard"
            /\ out' = Out("load_from_file", "none", None, None)
       ELSE LET e == load_error(file.doc)
            IN  IF e # "none"
                THEN /\ tracker' = None
                     /\ pc' = "crashed"
                     /\ out' = Out("load_from_file", e, None, None)
                ELSE /\ tracker' = load_from_file(file.doc)
                     /\ pc' = "menu"
                     /\ out' = Out("load_from_file", "none", None, None)
    /\ UNCHANGED <<file, today, choice>>

\* lines 157-168: one turn of the onboarding loop
Onboard(args) ==
    /\ pc = "onboard"
    /\ LET e == construct_error(args)
       IN  /\ tracker' = IF e = "none" THEN construct(args) ELSE tracker
           /\ pc' = IF e = "none" THEN "menu" ELSE "onboard"
           /\ out' = Out("construct", e, args, None)
    /\ UNCHANGED <<file, today, choice>>

\* lines 181-190
LogFood(inp) ==
    /\ pc = "menu"
    /\ choice' = "1"
    /\ IF inp.parses
       THEN /\ Len(tracker.food_logs) + Len(tracker.exercise_logs) < MaxLogs
            /\ tracker' = log_food(tracker, today, inp.meal, inp.calories,
                                   inp.protein, inp.carbs, inp.fats)
            /\ out' = Out("log_food", "none", inp, None)
       ELSE /\ tracker' = tracker
            /\ out' = Out("log_food", "Invalid number", inp, None)
    /\ UNCHANGED <<pc, file, today>>

\* lines 192-198
LogExercise(inp) ==
    /\ pc = "menu"
    /\ choice' = "2"
    /\ IF inp.parses
       THEN /\ Len(tracker.food_logs) + Len(tracker.exercise_logs) < MaxLogs
            /\ tracker' = log_exercise(tracker, today, inp.activity, inp.calories_burned)
            /\ out' = Out("log_exercise", "none", inp, None)
       ELSE /\ tracker' = tracker
            /\ out' = Out("log_exercise", "Invalid number", inp, None)
    /\ UNCHANGED <<pc, file, today>>

\* lines 200-202
DailySummary(date_input) ==
    /\ pc = "menu"
    /\ choice' = "3"
    /\ LET r == daily_summary(tracker, today, date_input)
       IN  /\ out' = Out("daily_summary",
                         IF r.macros = "ZeroDivisionError" THEN r.macros ELSE "none",
                         date_input, r)
           /\ pc' = IF r.macros = "ZeroDivisionError" THEN "crashed" ELSE "menu"
    /\ UNCHANGED <<tracker, file, today>>

\* lines 204-205
WeeklySummary ==
    /\ pc = "menu"
    /\ choice' = "4"
    /\ out' = Out("weekly_summary", "none", None, weekly_summary(tracker, today))
    /\ UNCHANGED <<pc, tracker, file, today>>

\* lines 207-210
ViewLogs(inp) ==
    /\ pc = "menu"
    /\ choice' = "5"
    /\ out' = Out("view_logs", "none", inp, view_logs(tracker, inp[1], inp[2]))
    /\ UNCHANGED <<pc, tracker, file, today>>

\* mutant: the new numbers are stored in the current object before validation
update_profile_in_place(current, args) ==
    IF construct_error(args) = "none" THEN construct(args)
    ELSE IF args.parses
    THEN [current EXCEPT !.height = args.height, !.weight = args.weight,
                         !.goal_weight = args.goal_weight, !.age = args.age]
    ELSE current

\* the object `tracker` names after choice 6 (lines 212-224)
update_profile(current, args) ==
    IF construct_error(args) = "none" THEN construct(args) ELSE current

UpdateProfile(args) ==
    /\ pc = "menu"
    /\ choice' = "6"
    /\ tracker' = update_profile(tracker, args)
    /\ out' = Out("construct", construct_error(args), args, None)
    /\ UNCHANGED <<pc, file, today>>

\* lines 226-229
ExitAndSave ==
    /\ pc = "menu"
    /\ choice' = "7"
    /\ file' = Document(save_to_file(tracker))
    /\ pc' = "exited"
    /\ out' = Out("save_to_file", "none", None, None)
    /\ UNCHANGED <<tracker, today>>

\* lines 231-232
InvalidChoice ==
    /\ pc = "menu"
    /\ choice' = "other"
    /\ out' = Out("none", "Invalid choice", None, None)
    /\ UNCHANGED <<pc, tracker, file, today>>

\* midnight passes: datetime.date.today() returns the next day from now on
Tick ==
    /\ pc \in {"onboard", "menu"}
    /\ today < MaxDay
    /\ today' = today + 1
    /\ UNCHANGED <<pc, tracker, file, choice, out>>

Next ==
    \/ Load
    \/ \E args \in OnboardInputs : Onboard(args)
    \/ \E inp \in FoodInputs : LogFood(inp)
    \/ \E inp \in ExerciseInputs : LogExercise(inp)
    \/ \E d \in DateInputs : DailySummary(d)
    \/ WeeklySummary
    \/ \E inp \in ViewInputs : ViewLogs(inp)
    \/ \E args \in UpdateInputs : UpdateProfile(args)
    \/ ExitAndSave
    \/ InvalidChoice
    \/ Tick

Spec == Init /\ [][Next]_vars

\* =================================================================== claims
IsPrefix(a, b) == Len(a) <= Len(b) /\ SubSeq(b, 1, Len(a)) = a

\* the day an ISO date string names
ParseDay(date) == date[1] * 10 + date[2]

\* the sum of the values at the positions in S
RECURSIVE SumAt(_, _)
SumAt(values, S) ==
    IF S = {} THEN 0
    ELSE LET i == CHOOSE j \in S : TRUE
         IN  values[i] + SumAt(values, S \ {i})

\* a step of the menu loop that handled the given choice, the clock standing still
Handled(c) == pc = "menu" /\ choice' = c /\ today' = today

\* C1: after a successful "update profile" the store's food and exercise logs are
\* the sequences they were before it, and so is what a following save writes.
C1_UpdatePreservesLogs ==
    [][(Handled("6") /\ out'.err = "none") =>
          /\ tracker'.food_logs = tracker.food_logs
          /\ tracker'.exercise_logs = tracker.exercise_logs
          /\ get(save_to_file(tracker'), "food_logs") = tracker.food_logs
          /\ get(save_to_file(tracker'), "exercise_logs") = tracker.exercise_logs]_vars

\* C2: loading the snapshot that save_to_file wrote gives a store with the same
\* profile fields, the same macro goals and the same two log sequences.
C2_RoundTrip ==
    pc = "exited" =>
        /\ file.exists
        /\ load_error(file.doc) = "none"
        /\ LET loaded == load_from_file(file.doc)
           IN  /\ \A f \in {"height", "weight", "goal_weight", "age", "gender",
                            "activity_level", "macro_goals"} : loaded[f] = tracker[f]
               /\ loaded.food_logs = tracker.food_logs
               /\ loaded.exercise_logs = tracker.exercise_logs

C2_Witness ==
    /\ pc = "exited"
    /\ Len(tracker.food_logs) >= 2
    /\ tracker.exercise_logs # <<>>
    /\ tracker.macro_goals # DefaultMacroGoals

\* C3: log_food appends exactly one entry, dated with the clock's date, at the end
\* of food_logs and leaves exercise_logs alone (log_exercise symmetrically); every
\* logging, summary and view step leaves each log's content a prefix of the new.
C3_AppendOnly ==
    [][(pc' = "menu" /\ \E c \in {"1", "2", "3", "4", "5"} : Handled(c)) =>
          /\ IsPrefix(tracker.food_logs, tracker'.food_logs)
          /\ IsPrefix(tracker.exercise_logs, tracker'.exercise_logs)
          /\ (out'.op = "log_food" /\ out'.err = "none") =>
                /\ Len(tracker'.food_logs) = Len(tracker.food_logs) + 1
                /\ tracker'.food_logs[Len(tracker'.food_logs)].date = isoformat(today)
                /\ tracker'.exercise_logs = tracker.exercise_logs
          /\ (out'.op = "log_exercise" /\ out'.err = "none") =>
                /\ Len(tracker'.exercise_logs) = Len(tracker.exercise_logs) + 1
                /\ tracker'.exercise_logs[Len(tracker'.exercise_logs)].date = isoformat(today)
                /\ tracker'.food_logs = tracker.food_logs
          /\ out'.op \notin {"log_food", "log_exercise"} => tracker' = tracker]_vars

C3_Witness ==
    /\ out.op = "log_food"
    /\ out.err = "none"
    /\ Len(tracker.food_logs) >= 2
    /\ tracker.food_logs[1].date # tracker.food_logs[Len(tracker.food_logs)].date
    /\ tracker.exercise_logs # <<>>

\* C4: a negative calories value is rejected and nothing is appended, so every
\* logged calorie value is non-negative.
C4_NegativeRejected ==
    tracker # None =>
        /\ \A i \in 1..Len(tracker.food_logs) : tracker.food_logs[i].calories >= 0
        /\ \A i \in 1..Len(tracker.exercise_logs) :
              tracker.exercise_logs[i].calories_burned >= 0

\* C5: loading a snapshot without the food_logs key ends in a reported error the
\* caller recovers from (onboarding or retry): no crash, and no store with an
\* empty food log.
C5_MissingFoodLogsRecoverable ==
    (out.op = "load_from_file" /\ file.exists /\ ~has_key(file.doc, "food_logs")) =>
        /\ pc = "onboard"
        /\ out.err # "none"
        /\ tracker = None

\* C6: Construct succeeds exactly when height, weight and goal_weight are
\* positive, age is in 18..100, and the lowercased gender and activity level are
\* known; a rejected onboarding leaves no store, and the menu loop only ever runs
\* with a fully constructed store.
ValidInput(a) ==
    /\ Greater(a.height, 0) /\ Greater(a.weight, 0) /\ Greater(a.goal_weight, 0)
    /\ LessEq(18, a.age) /\ LessEq(a.age, 100)
    /\ lower(a.gender) \in {"male", "female"}
    /\ lower(a.activity_level) \in {"sedentary", "light", "moderate", "active", "very_active"}

FullyConstructed(t) ==
    /\ t # None
    /\ ValidInput(t)
    /\ t.gender = lower(t.gender) /\ t.activity_level = lower(t.activity_level)
    /\ DOMAIN t = {"height", "weight", "goal_weight", "age", "gender", "activity_level",
                   "bmr", "tdee", "daily_calorie_goal", "bmi",
                   "food_logs", "exercise_logs", "macro_goals"}

C6_ConstructIffValid ==
    /\ pc \in {"menu", "exited"} => FullyConstructed(tracker)
    /\ pc = "onboard" => tracker = None
    /\ (out.op = "construct" /\ out.args.parses) =>
          (out.err = "none" <=> ValidInput(out.args))

\* C7: weekly_summary sums exactly the entries dated from today-6 to today.
InWeek(logs, clock) ==
    {i \in 1..Len(logs) :
        clock - 6 <= ParseDay(logs[i].date) /\ ParseDay(logs[i].date) <= clock}

C7_WeeklyWindow ==
    out.op = "weekly_summary" =>
        /\ out.res.food_cal =
              SumAt(calories_of(tracker.food_logs), InWeek(tracker.food_logs, out.res.clock))
        /\ out.res.exercise_cal =
              SumAt(burned_of(tracker.exercise_logs),
                    InWeek(tracker.exercise_logs, out.res.clock))

\* C8: daily_summary sums exactly the entries dated the target date; with no such
\* entry both sums are zero and the macro step reports "no macros"; it never
\* divides by zero.
OnDay(logs, date) == {i \in 1..Len(logs) : logs[i].date = date}

C8_DailySums ==
    out.op = "daily_summary" =>
        LET r == out.res
            food == OnDay(tracker.food_logs, r.date_str)
            exercise == OnDay(tracker.exercise_logs, r.date_str)
        IN  /\ out.args # NoDate => r.date_str = out.args
            /\ r.food_cal = SumAt(calories_of(tracker.food_logs), food)
            /\ r.exercise_cal = SumAt(burned_of(tracker.exercise_logs), exercise)
            /\ (food = {} /\ exercise = {}) =>
                  r.food_cal = 0 /\ r.exercise_cal = 0 /\ r.macros = "no macros"
            /\ r.macros # "ZeroDivisionError"
            /\ pc # "crashed"

C8_Witness ==
    /\ out.op = "daily_summary"
    /\ out.res.food_cal > 0
    /\ out.res.exercise_cal > 0
    /\ OnDay(tracker.food_logs, out.res.date_str) # 1..Len(tracker.food_logs)
    /\ out.res.macros = "percentages"

\* C9: the store's daily_calorie_goal is TDEE-500 when goal_weight < weight,
\* TDEE+500 when goal_weight > weight and TDEE when they are equal, TDEE being the
\* BMR of the current profile times the factor of the current activity level.
C9_GoalFromProfile ==
    tracker # None =>
        /\ tracker.bmr = calculate_bmr(tracker)
        /\ tracker.tdee = calculate_tdee(tracker)
        /\ Less(tracker.goal_weight, tracker.weight) =>
              tracker.daily_calorie_goal = Sub(tracker.tdee, 500 * Unit)
        /\ Greater(tracker.goal_weight, tracker.weight) =>
              tracker.daily_calorie_goal = Add(tracker.tdee, 500 * Unit)
        /\ tracker.goal_weight = tracker.weight =>
              tracker.daily_calorie_goal = tracker.tdee

C9_Witness ==
    /\ tracker # None
    /\ tracker.goal_weight = tracker.weight
    /\ tracker.food_logs # <<>>
    /\ out.op = "weekly_summary"

\* C10: a failed "update profile" leaves the store as it was: same profile, same
\* derived metrics, same logs, and the same snapshot written by a following save.
C10_FailedUpdateKeepsStore ==
    [][(Handled("6") /\ out'.err # "none") =>
          /\ tracker' = tracker
          /\ pc' = "menu"
          /\ save_to_file(tracker') = save_to_file(tracker)]_vars

C10_Witness ==
    /\ choice = "6"
    /\ out.err = "Invalid values"
    /\ tracker.food_logs # <<>>
    /\ tracker.exercise_logs # <<>>

====
